---- MODULE Spec2Model ----
(***************************************************************************)
(* xnlogo: a Python-to-NetLogo transpiler.                                 *)
(*                                                                         *)
(* Spec          the compiler pipeline: Parser.parse, the structural and   *)
(*               behavioural checks, and build_artifact (compiler.py),     *)
(*               ended by the CLI commands check and build.                *)
(* SpecTranslate the statement translator translate_statement              *)
(*               (codegen/netlogo_translator.py).                          *)
(* SpecConvert   the lowering of one method body by one                    *)
(*               PythonToNetLogoConverter (parser/py_to_netlogo.py).       *)
(* SpecTelemetry TelemetryBuffer: record, save and from_json_file          *)
(*               (runtime/telemetry.py).                                   *)
(* SpecSession   NetLogoSession objects used as scoped blocks over the     *)
(*               process-wide engine state (runtime/session.py).           *)
(* SpecRun       the CLI command run (cli/commands.py) driving one session *)
(*               and one TelemetryBuffer; SpecRunFair adds the fairness    *)
(*               of a process that keeps executing.                        *)
(***************************************************************************)
EXTENDS Integers, Sequences, FiniteSets, TLC

VARIABLES
    \* ---- compiler pipeline -------------------------------------------
    pc,           \* position inside build_artifact / parse_sources
    npaths,       \* number of source paths returned by gather_sources
    outcomes,     \* per path read so far: what reading and parsing it gave
    modules,      \* Parser.parse: the _ModuleInfo list ("parsed" or "empty")
    cur,          \* _merge_modules: index of the module being analysed
    sawModel,     \* a Model subclass has been visited by some analyzer
    diagnostics,  \* DiagnosticBag._items
    model,        \* the merged ModelSpec
    fmt,          \* build_artifact's fmt argument
    written,      \* files written into the output directory
    result,       \* artifact path build_artifact returned (<<>> for None)
    exc,          \* exception that left build_artifact, "none" if none
    code,         \* NetLogoGenerator.render(): the generated code block
    methods,      \* history: the methods the class-body loop has visited
    \* ---- statement translator ----------------------------------------
    tpc,          \* "idle", "call", "returned" or "raised"
    source,       \* the statement text, a sequence of tokens
    output,       \* the string translate_statement returned, as tokens
    texc,         \* exception that left translate_statement
    \* ---- PythonToNetLogoConverter ------------------------------------
    cpc,          \* "idle", "top" (between statements) or "visit"
    context_params,
    local_vars,
    declared_vars,
    created_turtles,
    pending,      \* plain names the statement being converted assigns
    frames,       \* open visit_If / visit_While / visit_For activations
    blocks,       \* netlogo_code, kept per open bracket block
    nstmts,       \* assignments lowered so far
    \* ---- TelemetryBuffer ---------------------------------------------
    kpc,          \* "idle", "buffer", "saved" or "loaded"
    records,      \* TelemetryBuffer.records
    file,         \* telemetry.json: the JSON array save() wrote
    loaded,       \* records of the buffer from_json_file returned
    \* ---- NetLogoSession and the module globals of session.py ---------
    _HEADLESS_CLASS,        \* "None" or "HeadlessWorkspace"
    _ACTIVE_NETLOGO_HOME,   \* "None" or the home the JVM was started with
    jvm,          \* the configurations jpype.startJVM was called with
    config,       \* per session: its SessionConfig
    _workspace,   \* per session: 0 for None, else the workspace's number
    workspaces,   \* HeadlessWorkspace instances: dispose() calls so far
    scope,        \* per session: position in its `with session:` block
    \* ---- the CLI command run ----------------------------------------
    rpc,          \* position inside run()
    run,          \* run()'s options and locals
    world,        \* the NetLogo runtime: tick counter and stop condition
    \* ---- the CLI commands check and build ---------------------------
    strict,       \* check's --strict option
    exit_code,    \* exit code of the command, -1 while it runs
    \* ---- _statements_from_model_method on one method ------------------
    lpc,          \* "idle", "input" or "lowered"
    func,         \* the method body: a sequence of statements
    lowered,      \* the source texts of the RawStatements yielded
    \* ---- TelemetryBuffer.select --------------------------------------
    selected,     \* the buffer select returned: "none", "self" or "new"
    filtered,     \* the records of the returned buffer when it is new
    original      \* history: the records of the buffer when select ran

compilerVars == <<pc, npaths, outcomes, modules, cur, sawModel, diagnostics,
                  model, fmt, written, result, exc, code, methods>>
translatorVars == <<tpc, source, output, texc>>
converterVars == <<cpc, context_params, local_vars, declared_vars,
                   created_turtles, pending, frames, blocks, nstmts>>
telemetryVars == <<kpc, records, file, loaded>>
sessionVars == <<_HEADLESS_CLASS, _ACTIVE_NETLOGO_HOME, jvm, config,
                 _workspace, workspaces, scope>>
runVars == <<rpc, run, world>>
cliVars == <<strict, exit_code>>
runtimeVars == <<telemetryVars, sessionVars, runVars, cliVars>>
lowerVars == <<lpc, func, lowered>>
selectVars == <<selected, filtered, original>>
vars == <<compilerVars, translatorVars, converterVars, runtimeVars, lowerVars,
         selectVars>>

(***************************************************************************)
(* Bounds of the model.                                                    *)
(***************************************************************************)
MaxFiles == 2
MaxItems == 2
MaxTokens == 5
MaxDepth == 2
MaxStmts == 3
MaxRecords == 2
MaxSessions == 2
MaxWorkspaces == 3
MaxTicks == 2

(***************************************************************************)
(* Idle values of the components a specification does not run.             *)
(***************************************************************************)
EmptyModel == [agents |-> <<>>, widgets |-> <<>>, globals |-> <<>>]

IdleCompiler ==
    /\ pc = "idle" /\ npaths = 0 /\ outcomes = <<>> /\ modules = <<>>
    /\ cur = 0 /\ sawModel = FALSE /\ diagnostics = <<>>
    /\ model = EmptyModel /\ fmt = "" /\ written = {} /\ result = <<>>
    /\ exc = "none" /\ code = "" /\ methods = <<>>

IdleTelemetry ==
    /\ kpc = "idle" /\ records = <<>> /\ file = <<>> /\ loaded = <<>>

IdleSession ==
    /\ _HEADLESS_CLASS = "None" /\ _ACTIVE_NETLOGO_HOME = "None"
    /\ jvm = <<>> /\ config = <<>> /\ _workspace = <<>>
    /\ workspaces = <<>> /\ scope = <<>>

IdleRun == rpc = "idle" /\ run = <<>> /\ world = <<>>

IdleCli == strict = FALSE /\ exit_code = -1

IdleLower == lpc = "idle" /\ func = <<>> /\ lowered = <<>>

IdleSelect == selected = "none" /\ filtered = <<>> /\ original = <<>>

IdleRuntime == IdleTelemetry /\ IdleSession /\ IdleRun /\ IdleCli

IdleTranslator ==
    /\ tpc = "idle" /\ source = <<>> /\ output = "" /\ texc = "none"

IdleConverter ==
    /\ cpc = "idle" /\ context_params = {} /\ local_vars = {}
    /\ declared_vars = {} /\ created_turtles = {} /\ pending = {}
    /\ frames = <<>> /\ blocks = <<>> /\ nstmts = 0

(***************************************************************************)
(* Diagnostics (semantics/diagnostics.py).                                 *)
(***************************************************************************)
Diagnostic(level, kind, path, agent, behavior, detail) ==
    [level |-> level, kind |-> kind, path |-> path, agent |-> agent,
     behavior |-> behavior, detail |-> detail]

DiagError(kind, path, agent, behavior, detail) ==
    Diagnostic("error", kind, path, agent, behavior, detail)

DiagWarning(kind, path, agent, behavior, detail) ==
    Diagnostic("warning", kind, path, agent, behavior, detail)

has_errors(items) == \E i \in 1..Len(items) : items[i].level = "error"

(***************************************************************************)
(* Parser._parse_path: read one path and parse it as a module.             *)
(* read_text raises OSError for an unreadable path and UnicodeDecodeError  *)
(* (a ValueError) for bytes that are not UTF-8; only OSError is caught.    *)
(***************************************************************************)
FileOutcomes == {"ok", "oserror", "syntaxerror", "decodeerror"}

_parse_path(i, o) ==
    CASE o = "oserror" ->
           [raised |-> "none", module |-> "empty",
            diags |-> <<DiagError("read", i, "", "", "")>>]
      [] o = "decodeerror" ->
           [raised |-> "UnicodeDecodeError", module |-> "empty", diags |-> <<>>]
      [] o = "syntaxerror" ->
           [raised |-> "none", module |-> "empty",
            diags |-> <<DiagError("syntax", i, "", "", "")>>]
      [] OTHER ->
           [raised |-> "none", module |-> "parsed", diags |-> <<>>]

ParsePath ==
    /\ pc = "parse"
    /\ Len(modules) < npaths
    /\ \E o \in FileOutcomes :
         LET i == Len(modules) + 1
             r == _parse_path(i, o)
         IN /\ outcomes' = Append(outcomes, o)
            /\ diagnostics' = diagnostics \o r.diags
            /\ IF r.raised # "none"
                  THEN /\ pc' = "parse_raised"
                       /\ exc' = r.raised
                       /\ UNCHANGED <<modules, cur>>
                  ELSE /\ modules' = Append(modules, r.module)
                       /\ exc' = exc
                       /\ IF i = npaths
                             THEN pc' = "merge" /\ cur' = 1
                             ELSE pc' = pc /\ cur' = cur
    /\ UNCHANGED <<npaths, sawModel, model, fmt, written, result, code, methods>>
    /\ UNCHANGED <<translatorVars, converterVars, runtimeVars, lowerVars, selectVars>>

(***************************************************************************)
(* The IR (ir/model.py, ir/statements.py) as the parser fills it.          *)
(***************************************************************************)
RawStatement(src, is_netlogo) == [source |-> src, is_netlogo |-> is_netlogo]

AgentBehavior(name, statements, phase, context) ==
    [name |-> name, statements |-> statements, schedule_phase |-> phase,
     context |-> context]

AgentSpec(identifier, breed) ==
    [identifier |-> identifier, breed |-> breed, behaviors |-> <<>>]

(***************************************************************************)
(* Inputs of the module analyzer: the methods of a Model subclass.  A body *)
(* kind names the one statement of the method body:                        *)
(*   empty  : pass                       plain : self.n = self.n + 1       *)
(*   lambda : f = lambda n: n * 2        async : await self.step()         *)
(*   try    : try: self.value = 1 / 0  except ...: self.value = 0          *)
(*   subscript : self.n = self.xs[0]                                       *)
(***************************************************************************)
MethodNames == {"go", "move", "setup"}
ParamCounts == {0, 1}
BodyKinds == {"empty", "plain", "lambda", "async", "try", "subscript"}
BreedNames == {"wolves"}
SpecialMethods == {"__init__", "setup", "step", "reset", "run", "ui", "info"}

Capitalize(plural) == IF plural = "wolves" THEN "Wolves" ELSE plural

(* _statements_from_model_method: every statement is lowered by the        *)
(* converter and stored as already-NetLogo text (is_netlogo = True).       *)
_statements_from_model_method(body) ==
    CASE body = "plain"  -> <<RawStatement("set n (n + 1)", TRUE)>>
      [] body = "lambda" -> <<RawStatement("let f [ (n * 2) ]", TRUE)>>
      [] body = "async"  -> <<RawStatement("await self.step()", TRUE)>>
      [] body = "try"    -> <<RawStatement("set value (1 / 0)\nset value 0", TRUE)>>
      [] body = "subscript" -> <<RawStatement("set n self.xs[0]", TRUE)>>
      [] OTHER           -> <<>>

_determine_schedule_phase(name) ==
    IF Len(name) >= 6 /\ SubSeq(name, 1, 6) = "setup_" THEN "SETUP"
    ELSE IF name \in {"run_model", "go", "step"} THEN "TICK"
    ELSE "CUSTOM"

AgentIndex(agents, identifier) ==
    {i \in 1..Len(agents) : agents[i].identifier = identifier}

FirstNonObserver(agents) ==
    {i \in 1..Len(agents) :
        /\ agents[i].identifier # "Observer"
        /\ \A j \in 1..(i - 1) : agents[j].identifier = "Observer"}

AppendBehavior(agents, i, b) ==
    [agents EXCEPT ![i].behaviors = Append(@, b)]

(* _get_or_create_observer_agent + _extract_observer_procedure *)
_extract_observer_procedure(m, name, body) ==
    LET b == AgentBehavior(name, _statements_from_model_method(body),
                           _determine_schedule_phase(name), "OBSERVER")
        found == AgentIndex(m.agents, "Observer")
    IN IF found # {}
          THEN [m EXCEPT !.agents =
                   AppendBehavior(m.agents, CHOOSE i \in found :
                                     \A j \in found : i <= j, b)]
          ELSE [m EXCEPT !.agents =
                   AppendBehavior(<<AgentSpec("Observer", "None")>> \o m.agents,
                                  1, b)]

(* _extract_turtle_procedure: dropped when the model has no agent yet *)
_extract_turtle_procedure(m, name, body) ==
    LET b == AgentBehavior(name, _statements_from_model_method(body),
                           "TICK", "TURTLE")
        found == FirstNonObserver(m.agents)
    IN IF m.agents = <<>> THEN m
       ELSE IF found # {}
          THEN [m EXCEPT !.agents =
                   AppendBehavior(m.agents, CHOOSE i \in found : TRUE, b)]
          ELSE [m EXCEPT !.agents =
                   AppendBehavior(Append(m.agents, AgentSpec("Turtles", "turtles")),
                                  Len(m.agents) + 1, b)]

(* one iteration of the loop over the class body in                        *)
(* _populate_model_from_class                                              *)
_populate_method(m, name, nparams, body) ==
    IF name \in SpecialMethods THEN m
    ELSE IF nparams = 1 THEN _extract_turtle_procedure(m, name, body)
    ELSE _extract_observer_procedure(m, name, body)

(* the self attributes an __init__ assigns, in the order of ast.walk:      *)
(*   self.n = 0            and            self.n = 0; self.n = 1           *)
InitBodies == {<<"n">>, <<"n", "n">>}

(* every self.<name> = <value> appends one GlobalVar *)
_extract_globals_from_init(m, targets) == [m EXCEPT !.globals = @ \o targets]

_extract_breed_spec(m, plural) ==
    [m EXCEPT !.agents = Append(@, AgentSpec(Capitalize(plural), plural))]

RECURSIVE CountBehaviors(_)
CountBehaviors(agents) ==
    IF agents = <<>> THEN 0
    ELSE Len(Head(agents).behaviors) + CountBehaviors(Tail(agents))

Breeds(agents) ==
    {i \in 1..Len(agents) : agents[i].identifier \notin {"Observer", "Turtles"}}

LegacyErrors(items) ==
    {i \in 1..Len(items) : items[i].kind = "agent_decorator"}

(* class-level items the analyzers have recorded so far *)
ItemCount ==
    Len(methods) + Cardinality(Breeds(model.agents))
      + Len(model.widgets) + Cardinality(LegacyErrors(diagnostics))

Merging == pc = "merge" /\ cur <= npaths /\ modules[cur] = "parsed"

MoreItems == Merging /\ ItemCount < MaxItems

framePipeline ==
    /\ UNCHANGED <<npaths, outcomes, modules, fmt, written, result, exc, code>>
    /\ UNCHANGED <<translatorVars, converterVars, runtimeVars, lowerVars, selectVars>>

frameCompiler == framePipeline /\ UNCHANGED methods

(* visit_ClassDef on a Model subclass: _populate_model_from_class begins *)
VisitModelClass ==
    /\ Merging
    /\ sawModel' = TRUE
    /\ UNCHANGED <<pc, cur, diagnostics, model>>
    /\ frameCompiler

(* visit_ClassDef on a class carrying the legacy @agent decorator *)
VisitAgentClass ==
    /\ MoreItems
    /\ diagnostics' = Append(diagnostics,
                             DiagError("agent_decorator", cur, "", "", ""))
    /\ UNCHANGED <<pc, cur, sawModel, model>>
    /\ frameCompiler

ExtractBreedSpec ==
    /\ MoreItems /\ sawModel
    /\ \E plural \in BreedNames : model' = _extract_breed_spec(model, plural)
    /\ UNCHANGED <<pc, cur, sawModel, diagnostics>>
    /\ frameCompiler

PopulateMethod ==
    /\ MoreItems /\ sawModel
    /\ \E name \in MethodNames, nparams \in ParamCounts, body \in BodyKinds :
         /\ model' = _populate_method(model, name, nparams, body)
         /\ methods' = Append(methods, [name |-> name, nparams |-> nparams])
    /\ UNCHANGED <<pc, cur, sawModel, diagnostics>>
    /\ framePipeline

(* _populate_model_from_class on a class with an __init__ method *)
ExtractGlobalsFromInit ==
    /\ MoreItems /\ sawModel
    /\ \E targets \in InitBodies :
         model' = _extract_globals_from_init(model, targets)
    /\ methods' = Append(methods, [name |-> "__init__", nparams |-> 0])
    /\ UNCHANGED <<pc, cur, sawModel, diagnostics>>
    /\ framePipeline

(* visit_Assign: interface = Interface(...) stores each widget constructor *)
(* call as the placeholder string "<!-- WIDGET: ... -->"                    *)
ExtractInterface ==
    /\ MoreItems
    /\ model' = [model EXCEPT !.widgets = Append(@, "placeholder")]
    /\ UNCHANGED <<pc, cur, sawModel, diagnostics>>
    /\ frameCompiler

(* _extract_widgets_from_ui_method: self.add_widget(...) stores a dict *)
ExtractUiWidget ==
    /\ MoreItems /\ sawModel
    /\ model' = [model EXCEPT !.widgets = Append(@, "dict")]
    /\ UNCHANGED <<pc, cur, sawModel, diagnostics>>
    /\ frameCompiler

(* _merge_modules: the analyzer of the current module is done *)
NextModule ==
    /\ pc = "merge"
    /\ cur <= npaths
    /\ cur' = cur + 1
    /\ pc' = IF cur = npaths THEN "structural" ELSE "merge"
    /\ UNCHANGED <<sawModel, diagnostics, model>>
    /\ frameCompiler

(***************************************************************************)
(* Semantic checks (semantics/checks.py).                                  *)
(***************************************************************************)
NameCount(behaviors, name) ==
    Cardinality({i \in 1..Len(behaviors) : behaviors[i].name = name})

FirstOccurrence(behaviors, i) ==
    \A j \in 1..(i - 1) : behaviors[j].name # behaviors[i].name

RECURSIVE DuplicatesFrom(_, _, _)
DuplicatesFrom(agent, i, most) ==
    IF i > Len(agent.behaviors) THEN <<>>
    ELSE (IF /\ FirstOccurrence(agent.behaviors, i)
             /\ NameCount(agent.behaviors, agent.behaviors[i].name) > most
             THEN <<DiagError("duplicate", 0, agent.identifier,
                              agent.behaviors[i].name, "")>>
             ELSE <<>>)
         \o DuplicatesFrom(agent, i + 1, most)

_check_duplicate_behaviors_gt2(agent) == DuplicatesFrom(agent, 1, 2)

_check_duplicate_behaviors(agent) == DuplicatesFrom(agent, 1, 1)

RECURSIVE StructuralFrom(_, _)
StructuralFrom(agents, i) ==
    IF i > Len(agents) THEN <<>>
    ELSE (IF agents[i].behaviors = <<>>
             THEN <<DiagWarning("no_behaviors", 0, agents[i].identifier, "", "")>>
             ELSE <<>>)
         \o _check_duplicate_behaviors(agents[i])
         \o StructuralFrom(agents, i + 1)

run_structural_checks_silent(m) == StructuralFrom(m.agents, 1)

run_structural_checks(m) ==
    IF m.agents = <<>>
       THEN <<DiagError("no_agents", 0, "", "", "No agents defined")>>
       ELSE StructuralFrom(m.agents, 1)

(* What ast.walk finds in a statement text that ast.parse accepts; a text  *)
(* that is NetLogo and no Python raises SyntaxError and yields nothing.    *)
PyConstructs(src) ==
    IF src = "await self.step()" THEN {"async/await"} ELSE {}

ConstructOrder == <<"async/await", "lambda", "try/except">>

RECURSIVE UnsupportedNodes(_, _)
UnsupportedNodes(statements, i) ==
    IF i > Len(statements) THEN {}
    ELSE (IF statements[i].is_netlogo THEN {} ELSE PyConstructs(statements[i].source))
         \cup UnsupportedNodes(statements, i + 1)

RECURSIVE ConstructWarnings(_, _, _, _)
ConstructWarnings(agent, behavior, found, k) ==
    IF k > Len(ConstructOrder) THEN <<>>
    ELSE (IF ConstructOrder[k] \in found
             THEN <<DiagWarning("unsupported", 0, agent.identifier, behavior.name,
                                ConstructOrder[k])>>
             ELSE <<>>)
         \o ConstructWarnings(agent, behavior, found, k + 1)

_check_unsupported_constructs_in_behavior(agent, behavior) ==
    ConstructWarnings(agent, behavior, UnsupportedNodes(behavior.statements, 1), 1)

RECURSIVE BehaviorsFrom(_, _)
BehaviorsFrom(agent, j) ==
    IF j > Len(agent.behaviors) THEN <<>>
    ELSE (IF agent.behaviors[j].statements = <<>>
             THEN <<DiagWarning("no_statements", 0, agent.identifier,
                                agent.behaviors[j].name, "")>>
             ELSE <<>>)
         \o _check_unsupported_constructs_in_behavior(agent, agent.behaviors[j])
         \o BehaviorsFrom(agent, j + 1)

RECURSIVE BehavioralFrom(_, _)
BehavioralFrom(agents, i) ==
    IF i > Len(agents) THEN <<>>
    ELSE BehaviorsFrom(agents[i], 1) \o BehavioralFrom(agents, i + 1)

run_behavioral_checks(m) == BehavioralFrom(m.agents, 1)

(* parse_sources, after Parser.parse *)
RunStructuralChecks ==
    /\ pc = "structural"
    /\ diagnostics' = diagnostics \o run_structural_checks(model)
    /\ pc' = "behavioral"
    /\ UNCHANGED <<cur, sawModel, model>>
    /\ frameCompiler

RunBehavioralChecks ==
    /\ pc = "behavioral"
    /\ diagnostics' = diagnostics \o run_behavioral_checks(model)
    /\ pc' = "checked"
    /\ UNCHANGED <<cur, sawModel, model>>
    /\ frameCompiler

(***************************************************************************)
(* NetLogoGenerator.render (codegen/netlogo_generator.py).  A block is a   *)
(* sequence of lines; the code is the blocks joined by blank lines.        *)
(***************************************************************************)
Contains(text, part) ==
    \E i \in 1..(Len(text) - Len(part) + 1) :
       SubSeq(text, i, i + Len(part) - 1) = part

RECURSIVE Join(_, _)
Join(items, sep) ==
    IF items = <<>> THEN ""
    ELSE IF Len(items) = 1 THEN items[1]
    ELSE items[1] \o sep \o Join(Tail(items), sep)

RECURSIVE Flatten(_)
Flatten(seqs) == IF seqs = <<>> THEN <<>> ELSE Head(seqs) \o Flatten(Tail(seqs))

(* breed("wolves", "wolf", ...): the singular the declaration names *)
Singular(plural) == IF plural = "wolves" THEN "wolf" ELSE plural

HasBreed(agent) == agent.breed # "None"

_render_breed(agent) ==
    IF ~HasBreed(agent) \/ agent.breed = "turtles" THEN <<>>
    ELSE <<"breed [" \o agent.breed \o " " \o Singular(agent.breed) \o "]">>

_render_declarations(m) ==
    (IF m.globals = <<>> THEN <<>>
                         ELSE <<"globals [" \o Join(m.globals, " ") \o "]">>)
    \o Flatten([i \in 1..Len(m.agents) |-> _render_breed(m.agents[i])])

IsSetupObserver(b) == b.schedule_phase = "SETUP" /\ b.context = "OBSERVER"

IsTickTurtle(b) == b.schedule_phase = "TICK" /\ b.context = "TURTLE"

IsUserGo(b) ==
    b.name = "go" /\ b.schedule_phase = "TICK" /\ b.context = "OBSERVER"

AllBehaviors(m) ==
    Flatten([i \in 1..Len(m.agents) |->
               [j \in 1..Len(m.agents[i].behaviors) |->
                  [agent |-> i, behavior |-> m.agents[i].behaviors[j]]]])

StatementLines(b, indent) ==
    [k \in 1..Len(b.statements) |-> indent \o b.statements[k].source]

_render_setup(m) ==
    <<"to setup", "  clear-all">>
    \o Flatten([k \in 1..Len(AllBehaviors(m)) |->
                  IF IsSetupObserver(AllBehaviors(m)[k].behavior)
                     THEN <<"  " \o AllBehaviors(m)[k].behavior.name>>
                     ELSE <<>>])
    \o <<"  reset-ticks", "end">>

TickTurtle(agent) == SelectSeq(agent.behaviors, IsTickTurtle)

AskTarget(agent) == IF HasBreed(agent) THEN agent.breed ELSE "turtles"

_render_go(m) ==
    <<"to go">>
    \o Flatten([i \in 1..Len(m.agents) |->
                  IF TickTurtle(m.agents[i]) = <<>> THEN <<>>
                  ELSE <<"  ask " \o AskTarget(m.agents[i]) \o " [">>
                       \o Flatten([j \in 1..Len(TickTurtle(m.agents[i])) |->
                                     StatementLines(TickTurtle(m.agents[i])[j],
                                                    "    ")])
                       \o <<"  ]">>])
    \o Flatten([k \in 1..Len(AllBehaviors(m)) |->
                  LET b == AllBehaviors(m)[k].behavior
                  IN IF /\ b.context = "OBSERVER"
                        /\ (Contains(b.name, "update") \/ Contains(b.name, "stats"))
                        THEN <<"  " \o b.name>>
                        ELSE <<>>])
    \o <<"  tick", "end">>

_render_behavior(b) ==
    <<"to " \o b.name>> \o StatementLines(b, "  ") \o <<"end">>

UserGo_ignored(m) == <<>>

UserGo(m) ==
    LET all == AllBehaviors(m)
        found == {k \in 1..Len(all) : IsUserGo(all[k].behavior)}
    IN IF found = {} THEN <<>>
       ELSE <<all[CHOOSE k \in found : \A j \in found : k <= j].behavior>>

RendersAsProcedure(b) ==
    \/ b.schedule_phase = "CUSTOM"
    \/ IsSetupObserver(b)
    \/ (b.schedule_phase = "TICK" /\ b.context = "OBSERVER" /\ b.name # "go")
    \/ IsTickTurtle(b)

RenderBlocks(m) ==
    (IF _render_declarations(m) = <<>> THEN <<>>
                                       ELSE <<_render_declarations(m)>>)
    \o <<_render_setup(m)>>
    \o (IF UserGo(m) # <<>> THEN <<_render_behavior(UserGo(m)[1])>>
                            ELSE <<_render_go(m)>>)
    \o Flatten([k \in 1..Len(AllBehaviors(m)) |->
                  IF RendersAsProcedure(AllBehaviors(m)[k].behavior)
                     THEN <<_render_behavior(AllBehaviors(m)[k].behavior)>>
                     ELSE <<>>])

render(m) ==
    Join([k \in 1..Len(RenderBlocks(m)) |-> Join(RenderBlocks(m)[k], "\n")],
         "\n\n") \o "\n"

(***************************************************************************)
(* validate_netlogo_syntax (tests/test_netlogo_validity.py): the           *)
(* conformance check of a generated code block.                            *)
(***************************************************************************)
Positions(text, char) == {i \in 1..Len(text) : SubSeq(text, i, i) = char}

(* the stack scan reports an error when a closing character meets an empty *)
(* stack or when the stack is not empty at the end                         *)
Unbalanced(text, open, close) ==
    LET opens == Positions(text, open)
        closes == Positions(text, close)
    IN \/ \E i \in closes :
             Cardinality({j \in closes : j <= i})
                > Cardinality({j \in opens : j < i})
       \/ Cardinality(opens) # Cardinality(closes)

python_keywords == {"self.", "def ", "class ", "import ", "from "}

validate_netlogo_syntax(text) ==
    (IF Unbalanced(text, "[", "]") THEN {"bracket"} ELSE {})
    \cup (IF Unbalanced(text, "(", ")") THEN {"parenthesis"} ELSE {})
    \cup {keyword \in python_keywords : Contains(text, keyword)}
    \cup (IF Contains(text, " == ") THEN {"=="} ELSE {})
    \cup (IF Contains(text, "**") /\ ~Contains(text, "^") THEN {"**"} ELSE {})

(***************************************************************************)
(* build_artifact (compiler.py) and NetLogoGenerator.emit.                 *)
(***************************************************************************)
Formats == {"nlogox", "NLOGOX", "nlogo"}

Lower(f) == IF f = "NLOGOX" THEN "nlogox" ELSE f

EntryStem == "model"

TargetName(f) ==
    IF Lower(f) = "nlogox" THEN <<EntryStem, ".nlogox">> ELSE <<EntryStem, ".nlogo">>

(* _render_declarations calls widget.get("type", "") on every entry of     *)
(* model.widgets; a placeholder is a str, which has no get.                *)
_render_declarations_raises(m) ==
    \E i \in 1..Len(m.widgets) : m.widgets[i] = "placeholder"

emit(m) ==
    IF _render_declarations_raises(m) THEN "AttributeError" ELSE "none"

frameBuild ==
    /\ UNCHANGED <<npaths, outcomes, modules, cur, sawModel, diagnostics, model,
                   methods>>
    /\ UNCHANGED <<translatorVars, converterVars, runtimeVars, lowerVars, selectVars>>

(* if diagnostics.has_errors(): return result, None *)
ReturnNoArtifact ==
    /\ pc = "checked"
    /\ has_errors(diagnostics)
    /\ pc' = "returned"
    /\ result' = <<>>
    /\ UNCHANGED <<fmt, written, exc, code>>
    /\ frameBuild

GeneratorEmit ==
    /\ pc = "checked"
    /\ ~has_errors(diagnostics)
    /\ \E f \in Formats : fmt' = f
    /\ IF emit(model) = "none"
          THEN pc' = "write" /\ exc' = exc /\ code' = render(model)
          ELSE pc' = "emit_raised" /\ exc' = emit(model) /\ code' = code
    /\ UNCHANGED <<written, result>>
    /\ frameBuild

WriteArtifact ==
    /\ pc = "write"
    /\ written' = written \cup {TargetName(fmt)}
    /\ result' = TargetName(fmt)
    /\ pc' = "returned"
    /\ UNCHANGED <<fmt, exc, code>>
    /\ frameBuild

(***************************************************************************)
(* The CLI commands check and build (cli/commands.py).  check continues    *)
(* from the point where parse_sources returned, build from the point where *)
(* build_artifact returned; an exception that left either of them ends the *)
(* process with exit code 1.                                               *)
(***************************************************************************)
promote_nothing(items) == items

promote_warnings_to_errors(items) ==
    [k \in 1..Len(items) |->
       IF items[k].level = "warning" THEN [items[k] EXCEPT !.level = "error"]
                                     ELSE items[k]]

frameCli ==
    /\ UNCHANGED <<npaths, outcomes, modules, cur, sawModel, model, fmt,
                   written, result, exc, code, methods>>
    /\ UNCHANGED <<translatorVars, converterVars, telemetryVars, sessionVars,
                   runVars, lowerVars, selectVars>>

check ==
    /\ pc = "checked"
    /\ \E option \in BOOLEAN :
          /\ strict' = option
          /\ diagnostics' = IF option THEN promote_warnings_to_errors(diagnostics)
                                      ELSE diagnostics
    /\ exit_code' = IF has_errors(diagnostics') THEN 1 ELSE 0
    /\ pc' = "check_exit"
    /\ frameCli

build ==
    /\ pc = "returned"
    /\ exit_code' = IF has_errors(diagnostics) THEN 1
                    ELSE IF result = <<>> THEN 1 ELSE 0
    /\ pc' = "build_exit"
    /\ UNCHANGED <<diagnostics, strict>>
    /\ frameCli

(* the exception leaves the command: traceback, exit code 1 *)
Uncaught ==
    /\ pc \in {"parse_raised", "emit_raised"}
    /\ exit_code' = 1
    /\ pc' = "crashed"
    /\ UNCHANGED <<diagnostics, strict>>
    /\ frameCli

(***************************************************************************)
(* Properties of the build pipeline.                                       *)
(***************************************************************************)
ParseErrorKinds == {"read", "syntax"}

StructuralDone ==
    pc \in {"behavioral", "checked", "write", "returned", "emit_raised"}

BehavioralDone == pc \in {"checked", "write", "returned", "emit_raised"}

BuildLeft == pc \in {"returned", "emit_raised"}

DuplicatedNames(agent) ==
    {agent.behaviors[i].name : i \in
        {k \in 1..Len(agent.behaviors) :
            NameCount(agent.behaviors, agent.behaviors[k].name) >= 2}}

HasDuplicate(m) == \E a \in 1..Len(m.agents) : DuplicatedNames(m.agents[a]) # {}

AllWarnings(items) == \A k \in 1..Len(items) : items[k].level = "warning"

(* C1: build_artifact returns no path and writes no file when the          *)
(* diagnostics hold an error; otherwise it writes exactly one file named   *)
(* <entry-stem>.nlogox or <entry-stem>.nlogo and returns that path.        *)
C1_BuildArtifactContract ==
    BuildLeft =>
        IF has_errors(diagnostics)
           THEN result = <<>> /\ written = {}
           ELSE /\ pc = "returned"
                /\ written = {TargetName(fmt)}
                /\ result = TargetName(fmt)

(* C2: when an agent holds two or more behaviours of one name, the         *)
(* structural checks record an error for that name, has_errors is true and *)
(* build_artifact ends without running the generator or writing a file.    *)
C2_DuplicateBehaviorBlocksBuild ==
    (StructuralDone /\ HasDuplicate(model)) =>
        /\ \A a \in 1..Len(model.agents) :
             \A name \in DuplicatedNames(model.agents[a]) :
                \E k \in 1..Len(diagnostics) :
                   /\ diagnostics[k].level = "error"
                   /\ diagnostics[k].kind = "duplicate"
                   /\ diagnostics[k].agent = model.agents[a].identifier
                   /\ diagnostics[k].behavior = name
        /\ has_errors(diagnostics)
        /\ pc \notin {"write", "emit_raised"}
        /\ fmt = "" /\ written = {} /\ result = <<>>

C2_Witness ==
    /\ pc = "returned" /\ HasDuplicate(model) /\ result = <<>>
    /\ \A k \in 1..Len(diagnostics) : diagnostics[k].kind = "duplicate"

C4_WarningsNeverBlock ==
    /\ \A k \in 1..Len(diagnostics) :
          (/\ ~strict
           /\ diagnostics[k].kind \in {"no_behaviors", "no_statements",
                                        "unsupported"})
             => diagnostics[k].level = "warning"
    /\ (BuildLeft /\ diagnostics # <<>> /\ AllWarnings(diagnostics)) =>
          /\ pc = "returned"
          /\ written = {TargetName(fmt)}
          /\ result = TargetName(fmt)

ConstructName(body) ==
    CASE body = "async"  -> "async/await"
      [] body = "lambda" -> "lambda"
      [] body = "try"    -> "try/except"
      [] OTHER           -> ""

(* C5: for a Model-subclass method whose body holds async/await, a lambda  *)
(* or a try/except, parsing followed by the behavioural checks leaves a    *)
(* warning that names that construct.                                      *)
C5_UnsupportedConstructWarned ==
    BehavioralDone =>
        \A a \in 1..Len(model.agents) :
           \A j \in 1..Len(model.agents[a].behaviors) :
              \A body \in {"async", "lambda", "try"} :
                 model.agents[a].behaviors[j].statements
                       = _statements_from_model_method(body)
                 => \E k \in 1..Len(diagnostics) :
                       /\ diagnostics[k].level = "warning"
                       /\ diagnostics[k].agent = model.agents[a].identifier
                       /\ diagnostics[k].behavior = model.agents[a].behaviors[j].name
                       /\ diagnostics[k].detail = ConstructName(body)

(* C6: with several paths, each file that cannot be read or has a          *)
(* file-level syntax error gets exactly one error diagnostic and adds      *)
(* nothing to the model, and the parse goes on to the other files.         *)
C6_FailingFilesIsolated ==
    \A i \in 1..Len(outcomes) :
       (npaths >= 2 /\ outcomes[i] # "ok") =>
          /\ Cardinality({k \in 1..Len(diagnostics) :
                            /\ diagnostics[k].level = "error"
                            /\ diagnostics[k].path = i
                            /\ diagnostics[k].kind \in ParseErrorKinds}) = 1
          /\ i <= Len(modules) /\ modules[i] = "empty"
          /\ pc # "parse_raised"

(* C7: parse_sources never raises, whatever the readability, encoding or   *)
(* content of the files: each problem is an entry of the diagnostics.      *)
C7_ParseSourcesNeverRaises ==
    /\ pc # "parse_raised"
    /\ exc # "UnicodeDecodeError"
    /\ \A i \in 1..Len(outcomes) :
          outcomes[i] # "ok" =>
             \E k \in 1..Len(diagnostics) : diagnostics[k].path = i

BuiltWithoutErrors == pc \in {"write", "returned"} /\ code # ""

(* C12: for every model that builds without errors, the generated code     *)
(* block passes the conformance check: brackets and parentheses balanced,  *)
(* and none of "self.", "def ", "class ", "import ", "from ", " == " or a  *)
(* bare "**" in the text.                                                  *)
C12_GeneratedCodeConforms ==
    BuiltWithoutErrors => validate_netlogo_syntax(code) = {}

LiteralGo(b) ==
    "to go\n"
    \o Join([k \in 1..Len(b.statements) |-> "  " \o b.statements[k].source \o "\n"],
            "")
    \o "end\n"

ModelLevelGo ==
    {<<i, j>> \in (1..Len(model.agents)) \X (1..MaxItems) :
        /\ j <= Len(model.agents[i].behaviors)
        /\ model.agents[i].breed = "None"
        /\ model.agents[i].behaviors[j].name = "go"
        /\ model.agents[i].behaviors[j].schedule_phase = "TICK"
        /\ model.agents[i].behaviors[j].context = "OBSERVER"}

FirstModelLevelGo ==
    LET at == CHOOSE p \in ModelLevelGo :
                 \A q \in ModelLevelGo :
                    p[1] < q[1] \/ (p[1] = q[1] /\ p[2] <= q[2])
    IN model.agents[at[1]].behaviors[at[2]]

BehaviorsIn(context) ==
    {<<i, j>> \in (1..Len(model.agents)) \X (1..MaxItems) :
        /\ j <= Len(model.agents[i].behaviors)
        /\ model.agents[i].behaviors[j].context = context}

MethodsWith(arities) ==
    {k \in 1..Len(methods) :
        /\ methods[k].name \notin {"__init__", "ui", "info"}
        /\ methods[k].nparams \in arities}

(* C21: every method of a Model subclass other than __init__, ui and info  *)
(* is recorded as exactly one behaviour, per-agent when it has exactly one *)
(* parameter beyond the receiver and model-level otherwise, whatever its   *)
(* name and whatever the order of the methods.                             *)
C21_EveryMethodIsOneBehavior ==
    /\ Cardinality(BehaviorsIn("TURTLE")) = Cardinality(MethodsWith({1}))
    /\ Cardinality(BehaviorsIn("OBSERVER"))
          = Cardinality(MethodsWith(ParamCounts \ {1}))

(* C22: a widget placeholder whose late evaluation fails does not abort    *)
(* the build: the generator leaves the widget out, still renders the code  *)
(* and the remaining widgets, and the artifact is written.                 *)
C22_PlaceholderDoesNotAbortBuild ==
    (/\ BuildLeft
     /\ ~has_errors(diagnostics)
     /\ \E i \in 1..Len(model.widgets) : model.widgets[i] = "placeholder")
       => /\ exc = "none"
          /\ code # ""
          /\ written # {}

(* the places of the generated code where a line reads "to <name>" *)
Definitions(name) ==
    LET header == "to " \o name \o "\n"
    IN {i \in 1..(Len(code) - Len(header) + 1) :
           SubSeq(code, i, i + Len(header) - 1) = header}

(* C27: for every model that passes the structural checks the generated    *)
(* program defines each procedure name at most once, and it holds exactly  *)
(* one "to setup" and exactly one "to go".                                 *)
C27_ProcedureNamesUnique ==
    code # "" =>
       /\ Cardinality(Definitions("setup")) = 1
       /\ Cardinality(Definitions("go")) = 1
       /\ \A name \in MethodNames : Cardinality(Definitions(name)) <= 1

(* the first line of the generated code; the globals declaration, when    *)
(* there is one, is that line                                              *)
FirstLine ==
    LET ends == Positions(code, "\n")
    IN IF ends = {} THEN code
       ELSE SubSeq(code, 1, (CHOOSE i \in ends : \A j \in ends : i <= j) - 1)

(* the places of the globals declaration that list the name *)
Listed(name) ==
    LET line == FirstLine
    IN IF Len(line) < 9 \/ SubSeq(line, 1, 9) # "globals [" THEN {}
       ELSE {i \in 10..(Len(line) - Len(name)) :
                /\ SubSeq(line, i, i + Len(name) - 1) = name
                /\ SubSeq(line, i - 1, i - 1) \in {"[", " "}
                /\ SubSeq(line, i + Len(name), i + Len(name)) \in {" ", "]"}}

(* C28: the globals declaration of the generated program never lists the   *)
(* same name twice, also when __init__ assigns one self attribute twice or *)
(* when several classes or files are merged.                               *)
C28_GlobalsListedOnce ==
    \A name \in {"n"} : Cardinality(Listed(name)) <= 1

InitCompiler ==
    /\ pc = "parse" /\ npaths \in 1..MaxFiles /\ outcomes = <<>>
    /\ modules = <<>> /\ cur = 0 /\ sawModel = FALSE /\ diagnostics = <<>>
    /\ model = EmptyModel /\ fmt = "" /\ written = {} /\ result = <<>>
    /\ exc = "none" /\ code = "" /\ methods = <<>>

Next ==
    \/ ParsePath
    \/ VisitModelClass
    \/ VisitAgentClass
    \/ ExtractBreedSpec
    \/ PopulateMethod
    \/ ExtractGlobalsFromInit
    \/ ExtractInterface
    \/ ExtractUiWidget
    \/ NextModule
    \/ RunStructuralChecks
    \/ RunBehavioralChecks
    \/ ReturnNoArtifact
    \/ GeneratorEmit
    \/ WriteArtifact
    \/ check
    \/ build
    \/ Uncaught

Init ==
    InitCompiler /\ IdleTranslator /\ IdleConverter /\ IdleRuntime /\ IdleLower /\ IdleSelect

Spec == Init /\ [][Next]_vars

(***************************************************************************)
(* The semantic checks applied to an IR built by hand (ir/model.py,        *)
(* ir/statements.py): ModelSpec, AgentSpec, AgentBehavior and RawStatement *)
(* are public constructors, and RawStatement leaves is_netlogo False       *)
(* unless told otherwise.  The statement texts are:                        *)
(*   import os, from os import path : in-method imports                    *)
(*   await self.step()              : coroutine syntax                     *)
(*   self.n = self.n + 1            : plain Python                         *)
(*   set n (n + 1)                  : NetLogo, which ast.parse rejects     *)
(***************************************************************************)
ImportSources == {"import os", "from os import path"}

IRSources ==
    ImportSources \cup {"await self.step()", "self.n = self.n + 1", "set n (n + 1)"}

IRStatements == {RawStatement(src, flag) : src \in IRSources, flag \in BOOLEAN}

IRBodies == UNION {[1..n -> IRStatements] : n \in 1..MaxItems}

IRModel(statements) ==
    [agents |-> <<[AgentSpec("Observer", "None") EXCEPT !.behaviors =
                     <<AgentBehavior("go", statements, "TICK", "OBSERVER")>>]>>,
     widgets |-> <<>>, globals |-> <<>>]

InitChecks ==
    /\ pc = "structural" /\ npaths = 0 /\ outcomes = <<>> /\ modules = <<>>
    /\ cur = 0 /\ sawModel = FALSE /\ diagnostics = <<>>
    /\ \E statements \in IRBodies : model = IRModel(statements)
    /\ fmt = "" /\ written = {} /\ result = <<>>
    /\ exc = "none" /\ code = "" /\ methods = <<>>
    /\ IdleTranslator /\ IdleConverter /\ IdleRuntime /\ IdleLower /\ IdleSelect

NextChecks == RunStructuralChecks \/ RunBehavioralChecks

SpecChecks == InitChecks /\ [][NextChecks]_vars

(* C23: when a statement of a behaviour is not flagged as already NetLogo  *)
(* and contains an import or a from-import, the behavioural checks append  *)
(* a warning for that agent and behaviour.                                 *)
C23_InMethodImportWarned ==
    pc = "checked" =>
       \A a \in 1..Len(model.agents) :
          \A j \in 1..Len(model.agents[a].behaviors) :
             (\E i \in 1..Len(model.agents[a].behaviors[j].statements) :
                 LET st == model.agents[a].behaviors[j].statements[i]
                 IN ~st.is_netlogo /\ st.source \in ImportSources)
               => \E k \in 1..Len(diagnostics) :
                     /\ diagnostics[k].level = "warning"
                     /\ diagnostics[k].agent = model.agents[a].identifier
                     /\ diagnostics[k].behavior = model.agents[a].behaviors[j].name

(***************************************************************************)
(* The statement translator (codegen/netlogo_translator.py).  A statement  *)
(* text is a sequence of tokens separated by single blanks.  Surrogate     *)
(* stands for a lone surrogate code point (U+D800), which a str can hold   *)
(* and UTF-8 cannot encode.                                                *)
(***************************************************************************)
Surrogate == "<U+D800>"
Atoms == {"x", "self.n", "5"}
Tokens == Atoms \cup {"=", "-", "return", Surrogate}

RECURSIVE Text(_)
Text(toks) ==
    IF toks = <<>> THEN ""
    ELSE IF Len(toks) = 1 THEN toks[1]
    ELSE toks[1] \o " " \o Text(Tail(toks))

Atom(tok) ==
    CASE tok = "x"      -> [type |-> "Name", id |-> "x"]
      [] tok = "self.n" -> [type |-> "Attribute", value |-> "self", attr |-> "n"]
      [] OTHER          -> [type |-> "Constant", value |-> tok]

NoParse == [ok |-> FALSE]

(* ast.parse on the token grammar:                                         *)
(*   unary := "-" unary | atom        expr := unary ("-" unary)*           *)
RECURSIVE ParseUnary(_)
ParseUnary(toks) ==
    IF toks = <<>> THEN NoParse
    ELSE IF Head(toks) = "-"
       THEN LET r == ParseUnary(Tail(toks))
            IN IF r.ok
                  THEN [ok |-> TRUE, rest |-> r.rest,
                        node |-> [type |-> "UnaryOp", op |-> "USub",
                                  operand |-> r.node]]
                  ELSE NoParse
    ELSE IF Head(toks) \in Atoms
       THEN [ok |-> TRUE, rest |-> Tail(toks), node |-> Atom(Head(toks))]
    ELSE NoParse

RECURSIVE ParseBinTail(_, _)
ParseBinTail(left, toks) ==
    IF toks # <<>> /\ Head(toks) = "-"
       THEN LET r == ParseUnary(Tail(toks))
            IN IF r.ok
                  THEN ParseBinTail([type |-> "BinOp", left |-> left, op |-> "Sub",
                                     right |-> r.node], r.rest)
                  ELSE NoParse
       ELSE [ok |-> TRUE, rest |-> toks, node |-> left]

ParseExpr(toks) ==
    LET u == ParseUnary(toks)
        e == IF u.ok THEN ParseBinTail(u.node, u.rest) ELSE NoParse
    IN IF e.ok /\ e.rest = <<>> THEN e ELSE NoParse

IsTarget(tok) == tok \in {"x", "self.n"}

(*   stmt := "return" [expr] | (target "=")+ expr | expr                   *)
ParseStatement(toks) ==
    LET eqs == {i \in 1..Len(toks) : toks[i] = "="}
    IN IF Head(toks) = "return"
          THEN IF Len(toks) = 1
                  THEN [ok |-> TRUE, node |-> [type |-> "Return", value |-> [type |-> "None"]]]
                  ELSE LET e == ParseExpr(Tail(toks))
                       IN IF e.ok
                             THEN [ok |-> TRUE,
                                   node |-> [type |-> "Return", value |-> e.node]]
                             ELSE NoParse
       ELSE IF eqs = {}
          THEN LET e == ParseExpr(toks)
               IN IF e.ok
                     THEN [ok |-> TRUE, node |-> [type |-> "Expr", value |-> e.node]]
                     ELSE NoParse
       ELSE LET last == CHOOSE i \in eqs : \A j \in eqs : j <= i
                e == ParseExpr(SubSeq(toks, last + 1, Len(toks)))
            IN IF /\ last % 2 = 0
                  /\ \A i \in 1..last :
                        IF i % 2 = 1 THEN IsTarget(toks[i]) ELSE toks[i] = "="
                  /\ e.ok
                  THEN [ok |-> TRUE,
                        node |-> [type |-> "Assign",
                                  targets |-> [k \in 1..(last \div 2) |->
                                                  Atom(toks[2 * k - 1])],
                                  value |-> e.node]]
                  ELSE NoParse

(* ast.parse(source): the text is encoded to UTF-8 before it is parsed *)
ast_parse(toks) ==
    IF \E i \in 1..Len(toks) : toks[i] = Surrogate
       THEN [raised |-> "UnicodeEncodeError", body |-> <<>>]
    ELSE IF toks = <<>> THEN [raised |-> "none", body |-> <<>>]
    ELSE LET r == ParseStatement(toks)
         IN IF r.ok THEN [raised |-> "none", body |-> <<r.node>>]
                    ELSE [raised |-> "SyntaxError", body |-> <<>>]

RECURSIVE unparse(_)
unparse(node) ==
    CASE node.type = "Name"      -> node.id
      [] node.type = "Attribute" -> node.value \o "." \o node.attr
      [] node.type = "Constant"  -> node.value
      [] node.type = "UnaryOp"   -> "-" \o unparse(node.operand)
      [] node.type = "BinOp"     ->
            unparse(node.left) \o " - " \o unparse(node.right)

RECURSIVE UnparseTargets(_)
UnparseTargets(targets) ==
    IF targets = <<>> THEN ""
    ELSE unparse(Head(targets)) \o " = " \o UnparseTargets(Tail(targets))

visit_Name(node) == node.id

visit_Constant(node) == node.value

visit_Attribute(node) ==
    IF node.value = "self" THEN node.attr ELSE unparse(node)

RECURSIVE visit(_)
visit_UnaryOp(node) ==
    IF node.op = "USub" /\ node.operand.type = "Constant"
       THEN "-" \o visit(node.operand)
       ELSE "- " \o visit(node.operand)

visit_BinOp(node) ==
    "(" \o visit(node.left) \o " - " \o visit(node.right) \o ")"

visit(node) ==
    CASE node.type = "Name"      -> visit_Name(node)
      [] node.type = "Attribute" -> visit_Attribute(node)
      [] node.type = "Constant"  -> visit_Constant(node)
      [] node.type = "UnaryOp"   -> visit_UnaryOp(node)
      [] node.type = "BinOp"     -> visit_BinOp(node)

visit_Assign(node) ==
    IF Len(node.targets) = 1
       THEN LET target == node.targets[1]
            IN IF target.type = "Attribute"
                  THEN "set " \o target.attr \o " " \o visit(node.value)
                  ELSE "set " \o target.id \o " " \o visit(node.value)
       ELSE UnparseTargets(node.targets) \o unparse(node.value)

visit_Return(node) ==
    IF node.value.type = "None" THEN "stop" ELSE "report " \o visit(node.value)

visit_Expr(node) == visit(node.value)

visit_statement(node) ==
    CASE node.type = "Assign" -> visit_Assign(node)
      [] node.type = "Return" -> visit_Return(node)
      [] OTHER                -> visit_Expr(node)

(* NetLogoTranslator.translate: only SyntaxError is caught *)
translate(toks) ==
    LET tree == ast_parse(toks)
    IN CASE tree.raised = "SyntaxError" ->
              [raised |-> "none", text |-> "; UNPARSED: " \o Text(toks)]
         [] tree.raised # "none" -> [raised |-> tree.raised, text |-> ""]
         [] tree.body = <<>> -> [raised |-> "none", text |-> ""]
         [] OTHER -> [raised |-> "none", text |-> visit_statement(tree.body[1])]

frameTranslator ==
    UNCHANGED <<compilerVars, converterVars, runtimeVars, lowerVars, selectVars>>

(* the caller supplies the statement text, one token at a time *)
TypeToken ==
    /\ tpc = "input"
    /\ Len(source) < MaxTokens
    /\ \E tok \in Tokens : source' = Append(source, tok)
    /\ UNCHANGED <<tpc, output, texc>>
    /\ frameTranslator

translate_statement ==
    /\ tpc = "input"
    /\ LET r == translate(source)
       IN IF r.raised = "none"
             THEN tpc' = "returned" /\ output' = r.text /\ texc' = texc
             ELSE tpc' = "raised" /\ output' = output /\ texc' = r.raised
    /\ UNCHANGED source
    /\ frameTranslator

InitTranslator ==
    /\ tpc = "input" /\ source = <<>> /\ output = "" /\ texc = "none"

NextTranslate == TypeToken \/ translate_statement

InitTranslate ==
    IdleCompiler /\ InitTranslator /\ IdleConverter /\ IdleRuntime /\ IdleLower /\ IdleSelect

SpecTranslate == InitTranslate /\ [][NextTranslate]_vars

(***************************************************************************)
(* Properties of the statement translator.                                 *)
(***************************************************************************)
InvalidSyntax(toks) == ast_parse(toks).raised # "none"

PlainLocalAssignment(toks) ==
    /\ Len(toks) >= 3
    /\ toks[1] = "x" /\ toks[2] = "="
    /\ ParseExpr(SubSeq(toks, 3, Len(toks))).ok

(* C8: translate_statement never raises for a text that is not valid       *)
(* source syntax; it returns "; UNPARSED:" followed by the input.          *)
C8_InvalidTextFallsBack ==
    (tpc # "input" /\ InvalidSyntax(source)) =>
        /\ tpc = "returned"
        /\ output = "; UNPARSED: " \o Text(source)

(* C9: translate_statement on a plain local assignment var = expr whose    *)
(* name was not declared before returns "let var <expr>", not "set".       *)
C9_FirstLocalAssignmentIsLet ==
    (tpc = "returned" /\ PlainLocalAssignment(source)) =>
        output = "let " \o source[1] \o " "
                   \o visit(ParseExpr(SubSeq(source, 3, Len(source))).node)

(***************************************************************************)
(* The method converter (parser/py_to_netlogo.py).  One converter lowers   *)
(* the statements of one method; the traversal of a statement is a         *)
(* sequence of visits.  blocks holds, for every bracket block still open,  *)
(* the assignments emitted into it as <<keyword, name>>.                   *)
(***************************************************************************)
Names == {"x", "y"}
ParamNames == {"y"}

Emit(op, v) == [blocks EXCEPT ![Len(blocks)] = Append(@, <<op, v>>)]

OpenBlock == Append(blocks, <<>>)

CloseBlock == SubSeq(blocks, 1, Len(blocks) - 1)

NextBlock == [blocks EXCEPT ![Len(blocks)] = <<>>]

Top == frames[Len(frames)]

Pop == SubSeq(frames, 1, Len(frames) - 1)

_analyze_local_variables(assigned) == local_vars \cup (assigned \ context_params)

saved_declared_vars_dropped(declared) == {}

restore_declared_vars_kept(saved, declared) == declared

(* self.declared_vars = saved_declared_vars.copy() *)
restore_declared_vars(saved, declared) == saved

(* names a block declares with let.  The frame fields before and first are *)
(* history: the declared names when the conditional was entered, and the   *)
(* names the earlier branches of the conditional declared.                 *)
LetNames(block) ==
    {block[i][2] : i \in {k \in 1..Len(block) : block[k][1] = "let"}}

saved_declared_vars(declared) == declared

Visiting == cpc = "visit"

frameConverter ==
    UNCHANGED <<compilerVars, translatorVars, runtimeVars, lowerVars, selectVars>>

(* convert(stmt): analyse the assigned names, then visit the statement *)
convert ==
    /\ cpc = "method"
    /\ nstmts < MaxStmts
    /\ \E assigned \in SUBSET Names :
          /\ local_vars' = _analyze_local_variables(assigned)
          /\ pending' = assigned
    /\ cpc' = "visit"
    /\ UNCHANGED <<context_params, declared_vars, created_turtles, frames, blocks,
                   nstmts>>
    /\ frameConverter

(* visit_Assign with a Name target and a value that is no create() call *)
visit_Assign_Name ==
    /\ Visiting
    /\ nstmts < MaxStmts
    /\ \E v \in local_vars \cup context_params :
          /\ IF v \in local_vars
                THEN IF v \notin declared_vars
                        THEN /\ declared_vars' = declared_vars \cup {v}
                             /\ blocks' = Emit("let", v)
                        ELSE /\ declared_vars' = declared_vars
                             /\ blocks' = Emit("set", v)
                ELSE /\ declared_vars' = declared_vars
                     /\ blocks' = Emit("set", v)
          /\ pending' = pending \ {v}
    /\ nstmts' = nstmts + 1
    /\ UNCHANGED <<cpc, context_params, local_vars, created_turtles, frames>>
    /\ frameConverter

(* visit_Assign with a Name target and a create() call as value *)
visit_Assign_create ==
    /\ Visiting
    /\ nstmts < MaxStmts
    /\ \E v \in local_vars \cup context_params :
          /\ created_turtles' = created_turtles \cup {v}
          /\ blocks' = Emit("set", v)
          /\ pending' = pending \ {v}
    /\ nstmts' = nstmts + 1
    /\ UNCHANGED <<cpc, context_params, local_vars, declared_vars, frames>>
    /\ frameConverter

(* visit_If up to the first statement of the body *)
visit_If ==
    /\ Visiting
    /\ Len(frames) < MaxDepth
    /\ frames' = Append(frames, [kind |-> "if",
                                 saved |-> saved_declared_vars(declared_vars),
                                 before |-> declared_vars, first |-> {}])
    /\ blocks' = OpenBlock
    /\ UNCHANGED <<cpc, context_params, local_vars, declared_vars, created_turtles,
                   pending, nstmts>>
    /\ frameConverter

(* visit_If after the body, orelse empty: close and restore *)
visit_If_end ==
    /\ Visiting
    /\ frames # <<>> /\ Top.kind = "if"
    /\ declared_vars' = restore_declared_vars(Top.saved, declared_vars)
    /\ frames' = Pop
    /\ blocks' = CloseBlock
    /\ UNCHANGED <<cpc, context_params, local_vars, created_turtles, pending, nstmts>>
    /\ frameConverter

(* visit_If after the body, orelse a single If: close, restore and visit   *)
(* the elif as a new if, which saves the restored set again                *)
visit_If_elif ==
    /\ Visiting
    /\ frames # <<>> /\ Top.kind = "if"
    /\ declared_vars' = restore_declared_vars(Top.saved, declared_vars)
    /\ frames' = Append(Pop, [kind |-> "if",
                              saved |-> saved_declared_vars(
                                 restore_declared_vars(Top.saved, declared_vars)),
                              before |-> Top.before,
                              first |-> Top.first \cup LetNames(blocks[Len(blocks)])])
    /\ blocks' = NextBlock
    /\ UNCHANGED <<cpc, context_params, local_vars, created_turtles, pending, nstmts>>
    /\ frameConverter

(* visit_If after the body, a true else: "] [" and restore *)
visit_If_else ==
    /\ Visiting
    /\ frames # <<>> /\ Top.kind = "if"
    /\ declared_vars' = restore_declared_vars(Top.saved, declared_vars)
    /\ frames' = Append(Pop, [kind |-> "else", saved |-> Top.saved,
                              before |-> Top.before,
                              first |-> Top.first \cup LetNames(blocks[Len(blocks)])])
    /\ blocks' = NextBlock
    /\ UNCHANGED <<cpc, context_params, local_vars, created_turtles, pending, nstmts>>
    /\ frameConverter

(* visit_If after the else branch: close, nothing restored *)
visit_If_else_end ==
    /\ Visiting
    /\ frames # <<>> /\ Top.kind = "else"
    /\ frames' = Pop
    /\ blocks' = CloseBlock
    /\ UNCHANGED <<cpc, context_params, local_vars, declared_vars, created_turtles,
                   pending, nstmts>>
    /\ frameConverter

(* visit_While and the regular visit_For open a block and save nothing *)
EnterLoop(kind) ==
    /\ Visiting
    /\ Len(frames) < MaxDepth
    /\ frames' = Append(frames, [kind |-> kind, saved |-> {},
                                 before |-> declared_vars, first |-> {}])
    /\ blocks' = OpenBlock
    /\ UNCHANGED <<cpc, context_params, local_vars, declared_vars, created_turtles,
                   pending, nstmts>>
    /\ frameConverter

ExitLoop(kind) ==
    /\ Visiting
    /\ frames # <<>> /\ Top.kind = kind
    /\ frames' = Pop
    /\ blocks' = CloseBlock
    /\ UNCHANGED <<cpc, context_params, local_vars, declared_vars, created_turtles,
                   pending, nstmts>>
    /\ frameConverter

visit_While == EnterLoop("while")

visit_While_end == ExitLoop("while")

visit_For == EnterLoop("for")

visit_For_end == ExitLoop("for")

(* convert returns: the statement has been visited completely *)
convert_return ==
    /\ Visiting
    /\ frames = <<>> /\ pending = {}
    /\ cpc' = "method"
    /\ UNCHANGED <<context_params, local_vars, declared_vars, created_turtles,
                   pending, frames, blocks, nstmts>>
    /\ frameConverter

InitConverter ==
    /\ cpc = "method" /\ context_params \in SUBSET ParamNames
    /\ local_vars = {} /\ declared_vars = {} /\ created_turtles = {}
    /\ pending = {} /\ frames = <<>> /\ blocks = << <<>> >> /\ nstmts = 0

NextConvert ==
    \/ convert
    \/ visit_Assign_Name
    \/ visit_Assign_create
    \/ visit_If
    \/ visit_If_end
    \/ visit_If_elif
    \/ visit_If_else
    \/ visit_If_else_end
    \/ visit_While
    \/ visit_While_end
    \/ visit_For
    \/ visit_For_end
    \/ convert_return

InitConvert ==
    IdleCompiler /\ IdleTranslator /\ InitConverter /\ IdleRuntime /\ IdleLower /\ IdleSelect

SpecConvert == InitConvert /\ [][NextConvert]_vars

(***************************************************************************)
(* Properties of the method converter.                                     *)
(***************************************************************************)
RECURSIVE Occurrences(_, _)
Occurrences(block, entry) ==
    IF block = <<>> THEN 0
    ELSE (IF Head(block) = entry THEN 1 ELSE 0) + Occurrences(Tail(block), entry)

RECURSIVE OpenCode(_)
OpenCode(bs) == IF bs = <<>> THEN <<>> ELSE Head(bs) \o OpenCode(Tail(bs))

(* C10: while one converter lowers one method, after a let for a plain     *)
(* local name in some block, every later plain assignment to that name in  *)
(* that block or a block nested in it is a set: the blocks open at any     *)
(* moment hold at most one let per name.                                   *)
C10_NoSecondLet ==
    \A v \in Names : Occurrences(OpenCode(blocks), <<"let", v>>) <= 1

C10_Witness ==
    /\ Len(blocks) = 3
    /\ Occurrences(blocks[1], <<"let", "x">>) = 1
    /\ Occurrences(blocks[1], <<"set", "x">>) = 1
    /\ Occurrences(blocks[3], <<"set", "x">>) = 1
    /\ Top.kind = "else"

BranchStarts == visit_If \/ visit_If_elif \/ visit_If_else

(* C11: every branch of a conditional (if, elif, else) starts with the     *)
(* declared names that held just before the conditional, and so does the   *)
(* code after an if without else; a local first assigned in two such       *)
(* branches is emitted with let in each.                                   *)
C11_BranchesStartFromEntrySet ==
    [][/\ BranchStarts => declared_vars' = frames'[Len(frames')].before
       /\ visit_If_end => declared_vars' = Top.before]_vars

C11_Witness ==
    /\ frames # <<>> /\ Top.kind \in {"if", "else"}
    /\ "x" \in Top.first /\ "x" \notin Top.before
    /\ blocks[Len(blocks)] = << <<"let", "x">> >>

(* the let for v that a set at position k of open block b can refer to:    *)
(* one emitted earlier into that block or into a block enclosing it        *)
LetInScope(v, b, k) ==
    \/ \E j \in 1..(k - 1) : blocks[b][j] = <<"let", v>>
    \/ \E a \in 1..(b - 1) : \E j \in 1..Len(blocks[a]) : blocks[a][j] = <<"let", v>>

(* C26: every set emitted for a plain local name (no field, no parameter,  *)
(* no create() result) lies in the block, or in a block nested in the      *)
(* block, where an earlier let for that name was emitted; no set refers to *)
(* a let inside an if/else branch, loop body or ask block already closed.  *)
C26_SetInsideLetScope ==
    \A b \in 1..Len(blocks) :
       \A k \in 1..Len(blocks[b]) :
          \A v \in Names \ (context_params \cup created_turtles) :
             blocks[b][k] = <<"set", v>> => LetInScope(v, b, k)

(***************************************************************************)
(* _ModuleAnalyzer._statements_from_model_method (parser/ast_parser.py) on *)
(* the body of one method.  The statements of a body are                   *)
(*   Docstring  : """doc"""                                                *)
(*   AssignStmt : self.n = self.n + 1                                      *)
(*   IfReturn(negated, value, orelse) :                                    *)
(*       if [not] self.done: return [1]    [else: self.n = 1]              *)
(***************************************************************************)
Docstring ==
    [type |-> "Expr", negated |-> FALSE, value |-> FALSE, orelse |-> FALSE]

AssignStmt ==
    [type |-> "Assign", negated |-> FALSE, value |-> FALSE, orelse |-> FALSE]

IfReturn(negated, value, orelse) ==
    [type |-> "If", negated |-> negated, value |-> value, orelse |-> orelse]

BodyStatements ==
    {Docstring, AssignStmt}
       \cup {IfReturn(n, v, o) : n \in BOOLEAN, v \in BOOLEAN, o \in BOOLEAN}

MethodBodies == UNION {[1..n -> BodyStatements] : n \in 1..MaxStmts}

(* the test expression of an If statement *)
Attribute_done == [type |-> "Attribute", operand |-> <<>>]

UnaryOp_Not(operand) == [type |-> "Not", operand |-> <<operand>>]

TestOf(stmt) ==
    IF stmt.negated THEN UnaryOp_Not(Attribute_done) ELSE Attribute_done

RECURSIVE _convert_expr(_)
_convert_expr(node) ==
    IF node.type = "Not"
       THEN "not (" \o _convert_expr(node.operand[1]) \o ")"
       ELSE "done"

RECURSIVE _indent(_)
_indent(indent_level) ==
    IF indent_level = 0 THEN "" ELSE "  " \o _indent(indent_level - 1)

(* PythonToNetLogoConverter.convert on one statement, joined by newlines *)
convert_stmt(stmt, level) ==
    CASE stmt.type = "Expr"   -> ""
      [] stmt.type = "Assign" -> _indent(level) \o "set n (n + 1)"
      [] OTHER ->
           _indent(level) \o (IF stmt.orelse THEN "ifelse " ELSE "if ")
              \o _convert_expr(TestOf(stmt)) \o " [\n"
              \o _indent(level + 1) \o (IF stmt.value THEN "report 1" ELSE "stop")
              \o "\n" \o _indent(level)
              \o (IF stmt.orelse
                     THEN "] [\n" \o _indent(level + 1) \o "set n 1\n"
                            \o _indent(level) \o "]"
                     ELSE "]")

IsDocstring(stmt) == stmt.type = "Expr"

IsGuardClause(stmt) == stmt.type = "If" /\ ~stmt.orelse /\ ~stmt.value

guard_condition_kept(test) == test

(* the positive condition: the operand of a not, else not <test> *)
guard_condition(test) ==
    IF test.type = "Not" THEN test.operand[1] ELSE UnaryOp_Not(test)

(* the lookahead loop over func.body; indices count from 1 *)
RECURSIVE DetectGuard(_, _, _)
DetectGuard(body, i, start_idx) ==
    IF i > Len(body)
       THEN [has_guard_clause |-> FALSE, start_idx |-> start_idx]
    ELSE IF IsDocstring(body[i])
       THEN DetectGuard(body, i + 1, i + 1)
    ELSE IF i = start_idx /\ IsGuardClause(body[i])
       THEN [has_guard_clause |-> TRUE, start_idx |-> i + 1]
    ELSE [has_guard_clause |-> FALSE, start_idx |-> start_idx]

RECURSIVE ConvertFrom(_, _, _)
ConvertFrom(body, i, level) ==
    IF i > Len(body) THEN <<>>
    ELSE (IF IsDocstring(body[i]) \/ convert_stmt(body[i], level) = ""
             THEN <<>>
             ELSE <<convert_stmt(body[i], level)>>)
         \o ConvertFrom(body, i + 1, level)

LowerMethodBody(body) ==
    LET d == DetectGuard(body, 1, 1)
    IN IF d.has_guard_clause
          THEN <<"if " \o _convert_expr(guard_condition(TestOf(body[d.start_idx - 1])))
                   \o " [">>
               \o ConvertFrom(body, d.start_idx, 1)
               \o <<"]">>
          ELSE ConvertFrom(body, 1, 0)

LowerMethod ==
    /\ lpc = "input"
    /\ lowered' = LowerMethodBody(func)
    /\ lpc' = "lowered"
    /\ UNCHANGED func
    /\ UNCHANGED <<compilerVars, translatorVars, converterVars, runtimeVars,
                   selectVars>>

InitLowering == lpc = "input" /\ func \in MethodBodies /\ lowered = <<>>

NextLower == LowerMethod

InitLower ==
    IdleCompiler /\ IdleTranslator /\ IdleConverter /\ IdleRuntime /\ InitLowering
    /\ IdleSelect

SpecLower == InitLower /\ [][NextLower]_vars

NotDocstring(stmt) == ~IsDocstring(stmt)

NegatedTest(stmt) == IF stmt.negated THEN "done" ELSE "not (done)"

(* C24: when the first statement of a method that is no docstring is a     *)
(* guard "if <test>: return" with a bare return and no else, the method is *)
(* lowered to "if <C> [" with C the negation of the test (the operand when *)
(* the test is "not X"), then the lowered form of every remaining          *)
(* statement that is no docstring, in source order, then one "]"; no stop  *)
(* is emitted for the guard and nothing is emitted outside the block.      *)
C24_GuardClauseWrapsRest ==
    LET rest == SelectSeq(func, NotDocstring)
    IN (lpc = "lowered" /\ rest # <<>> /\ IsGuardClause(rest[1])) =>
          /\ Len(lowered) = Len(rest) + 1
          /\ lowered[1] = "if " \o NegatedTest(rest[1]) \o " ["
          /\ \A k \in 2..Len(rest) : lowered[k] = convert_stmt(rest[k], 1)
          /\ lowered[Len(lowered)] = "]"
          /\ \A k \in 1..Len(lowered) : lowered[k] # "stop"

C24_Witness ==
    /\ lpc = "lowered"
    /\ func = <<Docstring, IfReturn(FALSE, FALSE, FALSE), AssignStmt>>
    /\ lowered = <<"if not (done) [", "  set n (n + 1)", "]">>

(***************************************************************************)
(* TelemetryBuffer (runtime/telemetry.py).  A metric value is an int or a  *)
(* str of digits; a metrics mapping is a function from its keys.  A JSON   *)
(* document is an array of objects whose members are numbers or strings.   *)
(***************************************************************************)
MetricKeys == {"tick", "population"}

MetricValues == {[type |-> "int", val |-> 7], [type |-> "str", val |-> 7]}

Metrics == UNION {[keys -> MetricValues] : keys \in SUBSET MetricKeys}

Ticks == 1..MaxRecords

TelemetryRecord(tick, metrics) == [tick |-> tick, metrics |-> metrics]

(* json.dumps and json.loads of one value *)
json_dumps(value) ==
    IF value.type = "int" THEN [json |-> "number", text |-> value.val]
                          ELSE [json |-> "string", text |-> value.val]

json_loads(member) ==
    IF member.json = "number" THEN [type |-> "int", val |-> member.text]
                              ELSE [type |-> "str", val |-> member.text]

(* {"tick": record.tick, **record.metrics}: a metric named tick replaces   *)
(* the record's tick                                                       *)
to_json(buffer) ==
    [i \in 1..Len(buffer) |->
       [key \in {"tick"} \cup DOMAIN buffer[i].metrics |->
          IF key \in DOMAIN buffer[i].metrics
             THEN json_dumps(buffer[i].metrics[key])
             ELSE json_dumps([type |-> "int", val |-> buffer[i].tick])]]

(* int(row.get("tick", 0)) *)
RowTick(row) == IF "tick" \in DOMAIN row THEN json_loads(row["tick"]).val ELSE 0

from_json_file(data) ==
    [i \in 1..Len(data) |->
       TelemetryRecord(RowTick(data[i]),
                       [key \in DOMAIN data[i] \ {"tick"} |->
                          json_loads(data[i][key])])]

frameTelemetry ==
    UNCHANGED <<compilerVars, translatorVars, converterVars, sessionVars,
                runVars, cliVars, lowerVars>>

record ==
    /\ kpc = "buffer" /\ Len(records) < MaxRecords
    /\ \E tick \in Ticks, metrics \in Metrics :
          records' = Append(records, TelemetryRecord(tick, metrics))
    /\ UNCHANGED <<kpc, file, loaded, selectVars>>
    /\ frameTelemetry

save ==
    /\ kpc = "buffer"
    /\ file' = to_json(records)
    /\ kpc' = "saved"
    /\ UNCHANGED <<records, loaded, selectVars>>
    /\ frameTelemetry

LoadJsonFile ==
    /\ kpc = "saved"
    /\ loaded' = from_json_file(file)
    /\ kpc' = "loaded"
    /\ UNCHANGED <<records, file, selectVars>>
    /\ frameTelemetry

(* the metric names a caller passes to select; "" is an empty name *)
MetricNameLists == SUBSET (MetricKeys \cup {""})

Restrict(metrics, requested) ==
    [k \in DOMAIN metrics \cap requested |-> metrics[k]]

(* select(metric_names): the buffer itself when no name is left, else a    *)
(* new buffer holding a filtered copy of every record                      *)
select ==
    /\ kpc = "buffer"
    /\ \E metric_names \in MetricNameLists :
          LET requested == metric_names \ {""}
          IN IF requested = {}
                THEN selected' = "self" /\ filtered' = <<>>
                ELSE /\ selected' = "new"
                     /\ filtered' =
                           [i \in 1..Len(records) |->
                              TelemetryRecord(records[i].tick,
                                              Restrict(records[i].metrics,
                                                       requested))]
    /\ original' = records
    /\ kpc' = "selected"
    /\ UNCHANGED <<records, file, loaded>>
    /\ frameTelemetry

(* record(tick, metrics) on the buffer select returned *)
RecordSelected ==
    /\ kpc = "selected"
    /\ \E tick \in Ticks, metrics \in Metrics :
          IF selected = "self"
             THEN /\ records' = Append(records, TelemetryRecord(tick, metrics))
                  /\ UNCHANGED filtered
             ELSE /\ filtered' = Append(filtered, TelemetryRecord(tick, metrics))
                  /\ UNCHANGED records
    /\ kpc' = "recorded"
    /\ UNCHANGED <<file, loaded, selected, original>>
    /\ frameTelemetry

InitTelemetryBuffer ==
    /\ kpc = "buffer" /\ records = <<>> /\ file = <<>> /\ loaded = <<>>

NextTelemetry == record \/ save \/ LoadJsonFile \/ select \/ RecordSelected

InitTelemetry ==
    /\ IdleCompiler /\ IdleTranslator /\ IdleConverter
    /\ InitTelemetryBuffer /\ IdleSession /\ IdleRun /\ IdleCli /\ IdleLower /\ IdleSelect

SpecTelemetry == InitTelemetry /\ [][NextTelemetry]_vars

(* C14: saving a buffer to JSON and reloading it with from_json_file gives *)
(* a buffer with the same number of records, in the same order, each with  *)
(* the same tick and the same metrics mapping.                             *)
C14_JsonRoundTrip ==
    kpc = "loaded" =>
        /\ Len(loaded) = Len(records)
        /\ \A i \in 1..Len(records) :
              /\ loaded[i].tick = records[i].tick
              /\ loaded[i].metrics = records[i].metrics

(* C29: select never changes the buffer it is called on and returns a      *)
(* buffer that shares no state with it, for every list of metric names,    *)
(* the empty list included: recording into the returned buffer leaves the  *)
(* original unchanged.                                                     *)
C29_SelectReturnsFreshBuffer ==
    kpc \in {"selected", "recorded"} =>
       /\ records = original
       /\ selected = "new"

(***************************************************************************)
(* NetLogoSession (runtime/session.py).  The JVM, _HEADLESS_CLASS and      *)
(* _ACTIVE_NETLOGO_HOME are shared by every session of the process.        *)
(***************************************************************************)
Sessions == 1..MaxSessions

(* SessionConfig, told apart by its netlogo_home *)
Configs == {"/opt/netlogo-6", "/opt/netlogo-7"}

(* what the environment does to an open(): RuntimeError when JPype or the  *)
(* NetLogo home is missing (before startJVM), ImportError when the import   *)
(* of HeadlessWorkspace fails (after startJVM)                              *)
OpenOutcomes == {"ok", "RuntimeError", "ImportError"}

DisposeOutcomes == {"ok", "raises"}

BodyOutcomes == {"normal", "Exception", "Exit"}

(* _import_jpype and _resolve_netlogo_home can fail only while the class   *)
(* is not cached; a started JVM without a recorded home is an error        *)
_ensure_headless_workspace_raises(env) ==
    /\ _HEADLESS_CLASS = "None"
    /\ \/ env \in {"RuntimeError", "ImportError"}
       \/ (jvm # <<>> /\ _ACTIVE_NETLOGO_HOME = "None")

_ensure_jvm_started_again(cfg) ==
    jvm' = Append(jvm, cfg) /\ _ACTIVE_NETLOGO_HOME' = cfg

_ensure_jvm_started(cfg) ==
    IF jvm # <<>>
       THEN UNCHANGED <<jvm, _ACTIVE_NETLOGO_HOME>>
       ELSE jvm' = Append(jvm, cfg) /\ _ACTIVE_NETLOGO_HOME' = cfg

_ensure_headless_workspace(cfg) ==
    IF _HEADLESS_CLASS # "None"
       THEN UNCHANGED <<_HEADLESS_CLASS, jvm, _ACTIVE_NETLOGO_HOME>>
       ELSE _ensure_jvm_started(cfg) /\ _HEADLESS_CLASS' = "HeadlessWorkspace"

open_raises(s, env) ==
    _workspace[s] = 0 /\ _ensure_headless_workspace_raises(env)

(* the import of HeadlessWorkspace raises after _ensure_jvm_started *)
import_raises(s, env) ==
    /\ open_raises(s, env) /\ env = "ImportError"
    /\ ~(jvm # <<>> /\ _ACTIVE_NETLOGO_HOME = "None")

open(s, env) ==
    IF _workspace[s] # 0 \/ (open_raises(s, env) /\ ~import_raises(s, env))
       THEN UNCHANGED <<_HEADLESS_CLASS, jvm, _ACTIVE_NETLOGO_HOME,
                        _workspace, workspaces>>
    ELSE IF import_raises(s, env)
       THEN /\ _ensure_jvm_started(config[s])
            /\ UNCHANGED <<_HEADLESS_CLASS, _workspace, workspaces>>
       ELSE /\ _ensure_headless_workspace(config[s])
            /\ workspaces' = Append(workspaces, [dispose_calls |-> 0,
                                                 failed |-> FALSE])
            /\ _workspace' = [_workspace EXCEPT ![s] = Len(workspaces) + 1]

suppress_nothing(outcome) == outcome = "ok"

(* with contextlib.suppress(Exception): the statement after it is reached  *)
suppress(outcome) == outcome \in DisposeOutcomes

close(s, outcome) ==
    IF _workspace[s] = 0
       THEN UNCHANGED <<_workspace, workspaces>>
       ELSE /\ workspaces' =
                 [workspaces EXCEPT ![_workspace[s]] =
                    [@ EXCEPT !.dispose_calls = @ + 1,
                              !.failed = (outcome = "raises")]]
            /\ _workspace' = IF suppress(outcome)
                                THEN [_workspace EXCEPT ![s] = 0]
                                ELSE _workspace

frameSession ==
    UNCHANGED <<compilerVars, translatorVars, converterVars, telemetryVars,
                runVars, cliVars, lowerVars, selectVars>>

(* with session:  ->  __enter__  ->  open() *)
__enter__(s) ==
    /\ scope[s].pc \in {"new", "left", "failed"}
    /\ Len(workspaces) < MaxWorkspaces
    /\ \E env \in OpenOutcomes :
          /\ open(s, env)
          /\ scope' = [scope EXCEPT ![s] =
                         IF open_raises(s, env)
                            THEN [pc |-> "failed", outcome |-> env,
                                  held |-> 0]
                            ELSE [pc |-> "body", outcome |-> "none",
                                  held |-> Len(workspaces) + 1]]
    /\ UNCHANGED config
    /\ frameSession

(* the body of the block finishes normally, raises, or raises typer.Exit *)
Body(s) ==
    /\ scope[s].pc = "body"
    /\ \E outcome \in BodyOutcomes :
          scope' = [scope EXCEPT ![s].pc = "exiting", ![s].outcome = outcome]
    /\ UNCHANGED <<_HEADLESS_CLASS, _ACTIVE_NETLOGO_HOME, jvm, config,
                   _workspace, workspaces>>
    /\ frameSession

(* session.close() called inside the block *)
CloseInBody(s) ==
    /\ scope[s].pc = "body"
    /\ \E outcome \in DisposeOutcomes : close(s, outcome)
    /\ UNCHANGED <<_HEADLESS_CLASS, _ACTIVE_NETLOGO_HOME, jvm, config, scope>>
    /\ frameSession

__exit__(s) ==
    /\ scope[s].pc = "exiting"
    /\ \E outcome \in DisposeOutcomes : close(s, outcome)
    /\ scope' = [scope EXCEPT ![s].pc = "left"]
    /\ UNCHANGED <<_HEADLESS_CLASS, _ACTIVE_NETLOGO_HOME, jvm, config>>
    /\ frameSession

InitSessions ==
    /\ _HEADLESS_CLASS = "None" /\ _ACTIVE_NETLOGO_HOME = "None" /\ jvm = <<>>
    /\ config \in [Sessions -> Configs]
    /\ _workspace = [s \in Sessions |-> 0]
    /\ workspaces = <<>>
    /\ scope = [s \in Sessions |->
                  [pc |-> "new", outcome |-> "none", held |-> 0]]

NextSession ==
    \E s \in Sessions : __enter__(s) \/ Body(s) \/ CloseInBody(s) \/ __exit__(s)

InitSession ==
    /\ IdleCompiler /\ IdleTranslator /\ IdleConverter
    /\ IdleTelemetry /\ InitSessions /\ IdleRun /\ IdleCli /\ IdleLower /\ IdleSelect

SpecSession == InitSession /\ [][NextSession]_vars

(* C15: a session used as a scoped block releases its workspace on every   *)
(* exit path: however the body finished, and even if dispose failed, after *)
(* the block the session is no longer open and the workspace it held has   *)
(* been disposed exactly once.                                             *)
C15_ScopedBlockReleases ==
    \A s \in Sessions :
       scope[s].pc = "left" =>
          /\ _workspace[s] = 0
          /\ workspaces[scope[s].held].dispose_calls = 1

C15_Witness ==
    \E s \in Sessions :
       /\ scope[s].pc = "left" /\ scope[s].outcome = "Exit"
       /\ workspaces[scope[s].held].failed

(* C16: once the engine has been initialised, a session whose             *)
(* configuration differs from the one used for initialisation cannot be    *)
(* opened: every open session has the configuration the JVM was started    *)
(* with.                                                                   *)
C16_ReconfigurationRejected ==
    \A s \in Sessions : _workspace[s] # 0 => config[s] = jvm[1]

(***************************************************************************)
(* NetLogoSession called directly, without a with block: open, close,      *)
(* load_model, command, report and repeat in any order.  Here scope[s]     *)
(* is history of the last call on session s: outcome the exception that    *)
(* left it, held the workspace the call reached (0: none).                 *)
(* What the workspace does with a call it receives is not modelled.        *)
(***************************************************************************)
_require_workspace_passes(s) == FALSE

(* _require_workspace: if self._workspace is None: raise RuntimeError *)
_require_workspace_raises(s) == _workspace[s] = 0

Called(s, outcome, reached) ==
    scope' = [scope EXCEPT ![s].outcome = outcome, ![s].held = reached]

WorkspaceCall(s) ==
    /\ IF _require_workspace_raises(s)
          THEN Called(s, "Session not open", 0)
          ELSE Called(s, "none", _workspace[s])
    /\ UNCHANGED <<_HEADLESS_CLASS, _ACTIVE_NETLOGO_HOME, jvm, config,
                   _workspace, workspaces>>
    /\ frameSession

Open(s) ==
    /\ Len(workspaces) < MaxWorkspaces
    /\ \E env \in OpenOutcomes :
          /\ open(s, env)
          /\ Called(s,
                    IF _workspace[s] = 0 /\ open_raises(s, env)
                       THEN env ELSE "none",
                    0)
    /\ UNCHANGED config
    /\ frameSession

Close(s) ==
    /\ \E outcome \in DisposeOutcomes : close(s, outcome)
    /\ Called(s, "none", 0)
    /\ UNCHANGED <<_HEADLESS_CLASS, _ACTIVE_NETLOGO_HOME, jvm, config>>
    /\ frameSession

load_model(s) == WorkspaceCall(s)

command(s) == WorkspaceCall(s)

report(s) == WorkspaceCall(s)

(* for _ in range(ticks): self.command(command) *)
repeat(s) ==
    \E ticks \in 0..MaxTicks :
       IF ticks = 0
          THEN /\ Called(s, "none", 0)
               /\ UNCHANGED <<_HEADLESS_CLASS, _ACTIVE_NETLOGO_HOME, jvm, config,
                              _workspace, workspaces>>
               /\ frameSession
          ELSE WorkspaceCall(s)

NextCalls ==
    \E s \in Sessions :
       \/ Open(s)
       \/ Close(s)
       \/ load_model(s)
       \/ command(s)
       \/ report(s)
       \/ repeat(s)

SpecCalls == InitSession /\ [][NextCalls]_vars

(* C25: across any sequence of open and close calls on any number of       *)
(* sessions the JVM is started at most once; once the engine class is      *)
(* cached, every later open leaves the JVM and the cached class alone and  *)
(* only creates a new workspace.                                           *)
C25_JvmStartedOnce ==
    /\ [](Len(jvm) <= 1)
    /\ [][_HEADLESS_CLASS # "None" =>
             /\ jvm' = jvm
             /\ _HEADLESS_CLASS' = _HEADLESS_CLASS
             /\ Len(workspaces') <= Len(workspaces) + 1]_vars

C25_Witness ==
    /\ Len(jvm) = 1
    /\ Len(workspaces) = MaxWorkspaces
    /\ \E s \in Sessions : _workspace[s] = Len(workspaces)
    /\ \E w \in 1..Len(workspaces) : workspaces[w].dispose_calls = 1

Holders(w) == {s \in Sessions : _workspace[s] = w}

(* C30: after any sequence of open, close, load_model, command, report and *)
(* repeat a session holds at most one workspace: every workspace not yet   *)
(* disposed is held by exactly one session and no workspace is disposed    *)
(* twice; open on an open session creates no workspace and close on a      *)
(* closed one does nothing; load_model, command and report on a session    *)
(* that is not open raise "Session not open" and reach no workspace.       *)
C30_SessionLifecycle ==
    /\ [](\A w \in 1..Len(workspaces) :
             /\ workspaces[w].dispose_calls <= 1
             /\ workspaces[w].dispose_calls = 0 => Cardinality(Holders(w)) = 1)
    /\ [][\A s \in Sessions :
             /\ (Open(s) /\ _workspace[s] # 0)
                   => UNCHANGED <<_workspace, workspaces, jvm>>
             /\ (Close(s) /\ _workspace[s] = 0)
                   => UNCHANGED <<_workspace, workspaces, jvm>>
             /\ ((load_model(s) \/ command(s) \/ report(s)) /\ _workspace[s] = 0)
                   => /\ scope'[s].outcome = "Session not open"
                      /\ scope'[s].held = 0
                      /\ workspaces' = workspaces]_vars

C30_Witness ==
    \E s \in Sessions :
       /\ scope[s].outcome = "Session not open"
       /\ _workspace[s] = 0
       /\ Len(workspaces) = 2
       /\ \A w \in 1..Len(workspaces) : workspaces[w].dispose_calls = 1

(***************************************************************************)
(* The CLI command run (cli/commands.py), from `with session:` on.  It     *)
(* uses session 1 and the telemetry buffer.  The runtime advances its tick *)
(* counter on go until the model's stop condition holds (stop_at ticks);   *)
(* from then on go returns without ticking.  The counter of go commands    *)
(* and the buffer are kept up to MaxGos entries.                           *)
(***************************************************************************)
MaxGos == MaxTicks + 1

MetricSpecs == {<<>>, <<"population">>, <<"population", "tick">>}

CallOutcomes == {"ok", "raises"}

(* if ticks and current_tick >= ticks: break *)
break_late(ticks, current_tick) == ticks # 0 /\ current_tick > ticks

break(ticks, current_tick) == ticks # 0 /\ current_tick >= ticks

(* except Exception: ... raise typer.Exit(code=1) *)
report_failure_ignored(outcome) == "continue"

report_failure(outcome) == IF outcome = "raises" THEN "Exit" ELSE "continue"

frameRun ==
    UNCHANGED <<compilerVars, translatorVars, converterVars, config, scope,
                loaded, cliVars, lowerVars, selectVars>>

(* with session:  (session.__enter__) *)
RunEnter ==
    /\ rpc = "with"
    /\ \E env \in OpenOutcomes :
          /\ open(1, env)
          /\ IF open_raises(1, env)
                THEN rpc' = "exited"
                     /\ run' = [run EXCEPT !.exc = "Exception", !.exit_code = 1]
                ELSE rpc' = "setup" /\ run' = run
    /\ UNCHANGED <<world, kpc, records, file>>
    /\ frameRun

(* session.load_model(model_path); session.command("setup") *)
RunSetup ==
    /\ rpc = "setup"
    /\ \E outcome \in CallOutcomes :
          IF outcome = "raises"
             THEN /\ rpc' = "exit" /\ run' = [run EXCEPT !.exc = "Exception"]
                  /\ world' = world
             ELSE /\ rpc' = "go" /\ run' = [run EXCEPT !.current_tick = 0]
                  /\ world' = [world EXCEPT !.ticks = 0]
    /\ UNCHANGED <<sessionVars, kpc, records, file>>
    /\ frameRun

(* session.command("go") *)
RunGo ==
    /\ rpc = "go"
    /\ \E outcome \in CallOutcomes :
          IF outcome = "raises"
             THEN /\ rpc' = "exit" /\ run' = [run EXCEPT !.exc = "Exception"]
                  /\ world' = world
             ELSE /\ rpc' = "ticks"
                  /\ run' = [run EXCEPT !.gos = IF @ < MaxGos THEN @ + 1 ELSE @]
                  /\ world' = [world EXCEPT !.ticks =
                                  IF @ < world.stop_at THEN @ + 1 ELSE @]
    /\ UNCHANGED <<sessionVars, kpc, records, file>>
    /\ frameRun

Failure == [gos |-> run.gos, records |-> Len(records)]

(* current_tick = int(session.report("ticks")) *)
RunReportTicks ==
    /\ rpc = "ticks"
    /\ \E outcome \in CallOutcomes :
          IF outcome = "raises"
             THEN /\ run' = [run EXCEPT !.failure = <<Failure>>,
                                        !.exc = IF report_failure(outcome) = "Exit"
                                                   THEN "Exit" ELSE @]
                  /\ rpc' = IF report_failure(outcome) = "Exit"
                               THEN "exit" ELSE "metrics"
             ELSE /\ run' = [run EXCEPT !.current_tick = world.ticks,
                                        !.metrics_payload = <<>>]
                  /\ rpc' = "metrics"
    /\ UNCHANGED <<sessionVars, world, kpc, records, file>>
    /\ frameRun

NextLabel == run.metric_specs[Cardinality(DOMAIN run.metrics_payload) + 1]

(* metrics_payload[label] = session.report(reporter) *)
RunReportMetric ==
    /\ rpc = "metrics"
    /\ Cardinality(DOMAIN run.metrics_payload) < Len(run.metric_specs)
    /\ \E outcome \in CallOutcomes, value \in MetricValues :
          IF outcome = "raises" /\ report_failure(outcome) = "Exit"
             THEN /\ run' = [run EXCEPT !.failure = <<Failure>>, !.exc = "Exit"]
                  /\ rpc' = "exit"
             ELSE /\ run' = [run EXCEPT
                               !.failure = IF outcome = "raises"
                                              THEN <<Failure>> ELSE @,
                               !.metrics_payload =
                                  [key \in DOMAIN @ \cup {NextLabel} |->
                                     IF key = NextLabel THEN value ELSE @[key]]]
                  /\ rpc' = rpc
    /\ UNCHANGED <<sessionVars, world, kpc, records, file>>
    /\ frameRun

(* telemetry.record(current_tick, metrics_payload); break or loop *)
RunRecord ==
    /\ rpc = "metrics"
    /\ Cardinality(DOMAIN run.metrics_payload) = Len(run.metric_specs)
    /\ records' = IF Len(records) < MaxGos
                     THEN Append(records,
                                 TelemetryRecord(run.current_tick,
                                                 run.metrics_payload))
                     ELSE records
    /\ rpc' = IF break(run.ticks, run.current_tick) THEN "exit" ELSE "go"
    /\ UNCHANGED <<sessionVars, run, world, kpc, file>>
    /\ frameRun

(* leaving the block: session.__exit__, then the exception goes on *)
RunExit ==
    /\ rpc = "exit"
    /\ \E outcome \in DisposeOutcomes : close(1, outcome)
    /\ IF run.exc = "none"
          THEN rpc' = "save" /\ run' = run
          ELSE rpc' = "exited" /\ run' = [run EXCEPT !.exit_code = 1]
    /\ UNCHANGED <<_HEADLESS_CLASS, _ACTIVE_NETLOGO_HOME, jvm, world, kpc,
                   records, file>>
    /\ frameRun

(* telemetry.save(telemetry_path) and the closing messages *)
RunSave ==
    /\ rpc = "save"
    /\ file' = to_json(records) /\ kpc' = "saved"
    /\ rpc' = "done" /\ run' = [run EXCEPT !.exit_code = 0]
    /\ UNCHANGED <<sessionVars, world, records>>
    /\ frameRun

InitRunCommand ==
    /\ rpc = "with"
    /\ \E ticks \in 0..MaxTicks, metric_specs \in MetricSpecs :
          run = [ticks |-> ticks, metric_specs |-> metric_specs,
                 current_tick |-> 0, metrics_payload |-> <<>>, gos |-> 0,
                 failure |-> <<>>, exc |-> "none", exit_code |-> -1]
    /\ \E stop_at \in 0..MaxTicks : world = [ticks |-> 0, stop_at |-> stop_at]

NextRun ==
    \/ RunEnter \/ RunSetup \/ RunGo \/ RunReportTicks \/ RunReportMetric
    \/ RunRecord \/ RunExit \/ RunSave

InitRun ==
    /\ IdleCompiler /\ IdleTranslator /\ IdleConverter
    /\ InitTelemetryBuffer /\ InitSessions /\ InitRunCommand /\ IdleCli
    /\ IdleLower /\ IdleSelect

SpecRun == InitRun /\ [][NextRun]_vars

SpecRunFair == SpecRun /\ WF_vars(NextRun)

RunTerminated == rpc \in {"done", "exited"}

(* C17: when reading the ticks reporter or a metric reporter fails, the    *)
(* run is aborted: no further go is issued, no telemetry record is         *)
(* appended for that iteration, the command exits with code 1 and the      *)
(* session is closed; telemetry.json is not written.                       *)
C17_ReporterFailureAborts ==
    run.failure # <<>> =>
        /\ run.gos = run.failure[1].gos
        /\ Len(records) = run.failure[1].records
        /\ rpc \in {"exit", "exited"}
        /\ rpc = "exited" =>
              run.exit_code = 1 /\ _workspace[1] = 0 /\ kpc = "buffer"

C17_Witness ==
    /\ rpc = "exited" /\ run.failure # <<>>
    /\ run.gos = 2 /\ Len(records) = 1 /\ run.metrics_payload # <<>>

(* the runtime of C18: setup resets the counter and every go up to the     *)
(* requested tick advances it by one                                       *)
Advancing == world.stop_at >= run.ticks

(* C18: with --ticks N >= 1 on such a runtime, run issues exactly N go     *)
(* commands, appends one record per go with ticks 1..N in order, and then  *)
(* leaves the loop, closes the session and writes telemetry.json; a run    *)
(* that has entered the loop always terminates.                            *)
RunsExactlyNTicks ==
    (run.ticks >= 1 /\ Advancing) =>
        /\ run.gos <= run.ticks
        /\ Len(records) <= run.gos
        /\ \A i \in 1..Len(records) : records[i].tick = i
        /\ rpc \in {"exit", "save", "done"} /\ run.exc = "none" =>
              run.gos = run.ticks /\ Len(records) = run.ticks
        /\ rpc = "done" =>
              /\ _workspace[1] = 0 /\ kpc = "saved"
              /\ file = to_json(records) /\ run.exit_code = 0

C18_RunsExactlyNTicks ==
    /\ []RunsExactlyNTicks
    /\ (run.ticks >= 1 /\ Advancing /\ rpc = "go") ~> RunTerminated

C18_Witness ==
    /\ rpc = "done" /\ run.ticks = MaxTicks /\ Advancing
    /\ run.gos = MaxTicks /\ run.metric_specs # <<>>

(* C19: with --ticks 0 the run executes go until the model reaches its     *)
(* stop condition and then terminates: it leaves the loop, closes the      *)
(* session and writes the telemetry file.                                  *)
C19_TicksZeroTerminates ==
    (run.ticks = 0 /\ rpc = "go") ~> RunTerminated
====
